---------------------------- MODULE Spec2Model ----------------------------
(***************************************************************************)
(* depgraph: the dependency-graph builder of parser.ts.                    *)
(*                                                                         *)
(* A JavaScript string is modelled as the sequence of its characters, so   *)
(* that startsWith, split, slice and the node:path functions are computed  *)
(* on the characters as the code computes them.  A file's text is modelled *)
(* as the sequence of its lexical tokens (see the section on               *)
(* extractImports).                                                        *)
(***************************************************************************)
EXTENDS Naturals, Sequences, FiniteSets

VARIABLES
    fs,           \* the filesystem: path -> [type, data, ok]
    pc,           \* position of the running function
    sourceFiles,  \* parseProject: const sourceFiles
    nodesMap,     \* parseProject: const nodesMap (a Map keeps insertion order)
    links,        \* parseProject: const links
    fileIdx,      \* parseProject: position of the for-of loops over sourceFiles
    specifiers,   \* parseProject: const specifiers of the file being parsed
    specIdx,      \* parseProject: position of the for-of loop over specifiers
    graph,        \* the value parseProject returned last
    prevGraph,    \* the value the invocation before that returned
    run,          \* number of the current invocation of parseProject
    arg,          \* argument of the pure function under check
    ret,          \* its return value
    targetDir,    \* the directory handed to parseProject as rootDir
    cli,          \* the command-line program: options, position, process state
    requests      \* startServer: the HTTP requests received so far

vars == <<fs, pc, sourceFiles, nodesMap, links, fileIdx, specifiers, specIdx,
          graph, prevGraph, run, arg, ret, targetDir, cli, requests>>

(***************************************************************************)
(* Bounds of the model.                                                    *)
(***************************************************************************)
\* longest specifier body enumerated for classifyImport
MaxBodyLen == 3
\* most statements in a text enumerated for extractImports
MaxStmts == 3
\* most import statements in the varied file of a scanned project
MaxImports == 2
\* invocations of parseProject on one filesystem
MaxRuns == 2
\* requests received by the server
MaxRequests == 2

(***************************************************************************)
(* Strings                                                                 *)
(***************************************************************************)
Range(s) == { s[i] : i \in DOMAIN s }

\* String.prototype.startsWith
StartsWith(s, p) == Len(s) >= Len(p) /\ SubSeq(s, 1, Len(p)) = p

\* String.prototype.slice(n): the string without its first n characters
Slice(s, n) == SubSeq(s, n + 1, Len(s))

\* index of the first occurrence of character ch in s at or after i, 0 if none
RECURSIVE IndexFrom(_, _, _)
IndexFrom(s, ch, i) ==
    IF i > Len(s) THEN 0
    ELSE IF s[i] = ch THEN i
    ELSE IndexFrom(s, ch, i + 1)

\* String.prototype.split(sep) for a one-character separator: empty pieces are kept
RECURSIVE Split(_, _)
Split(s, sep) ==
    LET k == IndexFrom(s, sep, 1) IN
    IF k = 0 THEN <<s>>
    ELSE <<SubSeq(s, 1, k - 1)>> \o Split(SubSeq(s, k + 1, Len(s)), sep)

\* Array.prototype.join(sep)
RECURSIVE Join(_, _)
Join(parts, sep) ==
    IF Len(parts) = 0 THEN <<>>
    ELSE IF Len(parts) = 1 THEN parts[1]
    ELSE parts[1] \o sep \o Join(Tail(parts), sep)

\* index of the last occurrence of character ch in s, 0 if none
RECURSIVE LastIndexOf(_, _, _)
LastIndexOf(s, ch, i) ==
    IF i = 0 THEN 0
    ELSE IF s[i] = ch THEN i
    ELSE LastIndexOf(s, ch, i - 1)

UpperToLower ==
    [ A |-> "a", B |-> "b", C |-> "c", D |-> "d", E |-> "e", F |-> "f",
      G |-> "g", H |-> "h", I |-> "i", J |-> "j", K |-> "k", L |-> "l",
      M |-> "m", N |-> "n", O |-> "o", P |-> "p", Q |-> "q", R |-> "r",
      S |-> "s", T |-> "t", U |-> "u", V |-> "v", W |-> "w", X |-> "x",
      Y |-> "y", Z |-> "z" ]

\* String.prototype.toLowerCase
ToLowerCase(s) ==
    [ i \in DOMAIN s |-> IF s[i] \in DOMAIN UpperToLower THEN UpperToLower[s[i]] ELSE s[i] ]

\* the array returned without the pass through a Set
DedupNone(xs) == xs

\* [...new Set(xs)]: the distinct elements in order of first insertion
RECURSIVE Dedup(_)
Dedup(xs) ==
    IF Len(xs) = 0 THEN <<>>
    ELSE LET front == Dedup(SubSeq(xs, 1, Len(xs) - 1))
             last == xs[Len(xs)]
         IN IF last \in Range(front) THEN front ELSE Append(front, last)

\* the value null
Null == <<>>

(***************************************************************************)
(* The tables of parser.ts                                                 *)
(***************************************************************************)
\* new Set([...]) iterates in insertion order: the order the resolver tries
SOURCE_EXTENSIONS ==
    << <<".","t","s">>, <<".","t","s","x">>, <<".","j","s">>, <<".","j","s","x">>, <<".","m","j","s">>, <<".","c","j","s">>, <<".","m","t","s">>, <<".","c","t","s">>, <<".","v","u","e">>, <<".","s","v","e","l","t","e">> >>

IGNORED_DIRS ==
    { <<"n","o","d","e","_","m","o","d","u","l","e","s">>, <<".","g","i","t">>, <<"d","i","s","t">>, <<"b","u","i","l","d">>, <<".","n","e","x","t">>, <<".","n","u","x","t">>, <<"c","o","v","e","r","a","g","e">>,
      <<"_","_","p","y","c","a","c","h","e","_","_">>, <<".","t","u","r","b","o">>, <<".","c","a","c","h","e">> }

NODE_BUILTINS ==
    { <<"a","s","s","e","r","t">>, <<"b","u","f","f","e","r">>, <<"c","h","i","l","d","_","p","r","o","c","e","s","s">>, <<"c","l","u","s","t","e","r">>, <<"c","r","y","p","t","o">>, <<"d","g","r","a","m">>, <<"d","n","s">>,
      <<"d","o","m","a","i","n">>, <<"e","v","e","n","t","s">>, <<"f","s">>, <<"h","t","t","p">>, <<"h","t","t","p","s">>, <<"n","e","t">>, <<"o","s">>, <<"p","a","t","h">>, <<"p","u","n","y","c","o","d","e">>,
      <<"q","u","e","r","y","s","t","r","i","n","g">>, <<"r","e","a","d","l","i","n","e">>, <<"s","t","r","e","a","m">>, <<"s","t","r","i","n","g","_","d","e","c","o","d","e","r">>, <<"t","i","m","e","r","s">>, <<"t","l","s">>,
      <<"t","t","y">>, <<"u","r","l">>, <<"u","t","i","l">>, <<"v","8">>, <<"v","m">>, <<"z","l","i","b">>, <<"w","o","r","k","e","r","_","t","h","r","e","a","d","s">>, <<"p","e","r","f","_","h","o","o","k","s">>,
      <<"a","s","y","n","c","_","h","o","o","k","s">>, <<"i","n","s","p","e","c","t","o","r">>, <<"t","r","a","c","e","_","e","v","e","n","t","s">>, <<"w","a","s","i">> }

(***************************************************************************)
(* node:path (POSIX) on character sequences                                *)
(***************************************************************************)
\* the segments of a path after normalisation: "", "." dropped, ".." pops
RECURSIVE NormalizeSegs(_, _)
NormalizeSegs(parts, acc) ==
    IF Len(parts) = 0 THEN acc
    ELSE LET p == Head(parts) IN
         IF p = <<>> \/ p = <<".">> THEN NormalizeSegs(Tail(parts), acc)
         ELSE IF p = <<".",".">>
              THEN NormalizeSegs(Tail(parts),
                                 IF Len(acc) = 0 THEN acc ELSE SubSeq(acc, 1, Len(acc) - 1))
              ELSE NormalizeSegs(Tail(parts), Append(acc, p))

\* the segments of an absolute path
AbsSegs(p) == NormalizeSegs(Split(p, "/"), <<>>)

\* the absolute path with the given segments
AbsPath(segs) == <<"/">> \o Join(segs, <<"/">>)

\* path.resolve(dir, p) for an absolute dir
PathResolve(dir, p) ==
    IF StartsWith(p, <<"/">>) THEN AbsPath(AbsSegs(p))
    ELSE AbsPath(AbsSegs(dir \o <<"/">> \o p))

\* path.join(dir, name) for an absolute dir
PathJoin(dir, name) == AbsPath(AbsSegs(dir \o <<"/">> \o name))

\* path.dirname(p) for an absolute, normalised p
PathDirname(p) ==
    LET segs == AbsSegs(p) IN
    IF Len(segs) = 0 THEN <<"/">> ELSE AbsPath(SubSeq(segs, 1, Len(segs) - 1))

\* length of the longest common prefix of two sequences of segments
RECURSIVE CommonLen(_, _)
CommonLen(a, b) ==
    IF Len(a) = 0 \/ Len(b) = 0 \/ Head(a) # Head(b) THEN 0
    ELSE 1 + CommonLen(Tail(a), Tail(b))

\* path.relative(from, to) for absolute paths
PathRelative(from, to) ==
    LET f == AbsSegs(from)
        t == AbsSegs(to)
        k == CommonLen(f, t)
        ups == [ i \in 1..(Len(f) - k) |-> <<".",".">> ]
    IN Join(ups \o SubSeq(t, k + 1, Len(t)), <<"/">>)

\* s without its trailing slashes
RECURSIVE StripTrailingSlashes(_)
StripTrailingSlashes(s) ==
    IF Len(s) > 0 /\ s[Len(s)] = "/" THEN StripTrailingSlashes(SubSeq(s, 1, Len(s) - 1))
    ELSE s

\* path.extname(p): from the last "." of the last segment, unless that "." is
\* the segment's first character or the segment is ".."
PathExtname(p) ==
    LET q == StripTrailingSlashes(p)
        base == SubSeq(q, LastIndexOf(q, "/", Len(q)) + 1, Len(q))
        dot == LastIndexOf(base, ".", Len(base))
    IN IF dot <= 1 \/ base = <<".",".">> THEN <<>>
       ELSE SubSeq(base, dot, Len(base))

(***************************************************************************)
(* classifyImport                                                          *)
(***************************************************************************)
\* classifyImport that decides built-ins by the table alone
classifyImportTableOnly(specifier) ==
    IF StartsWith(specifier, <<".">>) \/ StartsWith(specifier, <<"/">>) THEN "local"
    ELSE LET bare == IF StartsWith(specifier, <<"n","o","d","e",":">>)
                     THEN Slice(specifier, 5)
                     ELSE Split(specifier, "/")[1]
         IN IF bare \in NODE_BUILTINS THEN "builtin" ELSE "package"

classifyImport(specifier) ==
    IF StartsWith(specifier, <<".">>) \/ StartsWith(specifier, <<"/">>) THEN "local"
    ELSE LET bare == IF StartsWith(specifier, <<"n","o","d","e",":">>)
                     THEN Slice(specifier, 5)
                     ELSE Split(specifier, "/")[1]
         IN IF bare \in NODE_BUILTINS \/ StartsWith(specifier, <<"n","o","d","e",":">>)
            THEN "builtin"
            ELSE "package"


(***************************************************************************)
(* node:fs.  fs maps every existing path to [type, data, ok]: type is      *)
(* "file" or "dir", data the text of a file, ok whether the file can be    *)
(* read or the directory listed.  PathOrder is the order in which the      *)
(* operating system lists entries.                                         *)
(***************************************************************************)
PathOrder ==
    << <<"/","r">>, <<"/","r","/","a",".","t","s">>, <<"/","r","/","b",".","t","s">>, <<"/","r","/","l","i","b">>, <<"/","r","/","l","i","b","/","i","n","d","e","x",".","t","s">>, <<"/","r","/","l","i","b","/","i","n","d","e","x",".","j","s">>,
       <<"/","r","/","l","i","b",".","t","s">>, <<"/","r","/","l","i","b",".","j","s">>, <<"/","r","/","n","o","d","e","_","m","o","d","u","l","e","s">>, <<"/","r","/","n","o","d","e","_","m","o","d","u","l","e","s","/","m",".","j","s">>,
       <<"/","r","/",".","e","n","v",".","t","s">>, <<"/","r","/","n","o","t","e","s",".","m","d">>,
       <<"/","r","/","B",".","T","S">>, <<"/","r","/","s","r","c">>, <<"/","r","/","s","r","c","/","c",".","j","s">>, <<"/","r","/","s","r","c","/",".","h","i","d",".","t","s">>, <<"/","r","/","s","r","c","/","s","u","b">>, <<"/","r","/","s","r","c","/","s","u","b","/","d",".","v","u","e">>, <<"/","r","/","s","r","c","/","b","u","i","l","d">>, <<"/","r","/","s","r","c","/","b","u","i","l","d","/","o",".","j","s">>,
       <<"/","r","/","d","i","s","t">>, <<"/","r","/","d","i","s","t","/","e",".","j","s">>, <<"/","r","/",".","c","f","g">>, <<"/","r","/",".","c","f","g","/","h",".","t","s">>, <<"/","r","/","l","n",".","t","s">>, <<"/","r","/","z",".","t","s">>,
       <<"/","t">>, <<"/","t","/","a",".","t","s">>, <<"/","t","/","b",".","t","s">>, <<"/","t","/","n","o","t","e","s",".","m","d">> >>

\* fs.existsSync(p)
existsSync(p) == p \in DOMAIN fs

\* fs.statSync(p).isFile() and .isDirectory(), for an existing p
isFile(p) == fs[p].type = "file"
isDirectory(p) == fs[p].type = "dir"

\* the last segment of an absolute path
Basename(p) == LET segs == AbsSegs(p) IN IF Len(segs) = 0 THEN <<>> ELSE segs[Len(segs)]

\* fs.readdirSync(dir, { withFileTypes: true }) of a listable directory
readdirSync(dir) ==
    LET kids == SelectSeq(PathOrder,
                          LAMBDA p : existsSync(p) /\ p # dir /\ PathDirname(p) = dir)
    IN [ i \in DOMAIN kids |-> [name |-> Basename(kids[i]), type |-> fs[kids[i]].type] ]

(***************************************************************************)
(* collectSourceFiles                                                      *)
(***************************************************************************)
RECURSIVE walk(_, _)
RECURSIVE walkEntries(_, _, _)

\* the for-of loop of walk over the entries of currentDir
walkEntries(currentDir, entries, files) ==
    IF Len(entries) = 0 THEN files
    ELSE LET entry == Head(entries)
             fullPath == PathJoin(currentDir, entry.name)
             after ==
                 IF StartsWith(entry.name, <<".">>) THEN files
                 ELSE IF entry.type = "dir"
                      THEN IF entry.name \notin IGNORED_DIRS
                           THEN walk(fullPath, files)
                           ELSE files
                      ELSE IF entry.type = "file"
                           THEN IF ToLowerCase(PathExtname(entry.name)) \in Range(SOURCE_EXTENSIONS)
                                THEN Append(files, fullPath)
                                ELSE files
                           ELSE files
         IN walkEntries(currentDir, Tail(entries), after)

\* walk that loses the files found so far when currentDir cannot be listed
walkDropsAll(currentDir, files) ==
    IF ~fs[currentDir].ok THEN <<>>
    ELSE walkEntries(currentDir, readdirSync(currentDir), files)

\* walk(currentDir): files with the source files under currentDir appended
walk(currentDir, files) ==
    IF ~fs[currentDir].ok THEN files
    ELSE walkEntries(currentDir, readdirSync(currentDir), files)

collectSourceFiles(dir) == walk(dir, <<>>)

(***************************************************************************)
(* resolveLocalImport                                                      *)
(***************************************************************************)
\* the first element of the sequence of paths that exists, Null if none
RECURSIVE FirstExisting(_)
FirstExisting(candidates) ==
    IF Len(candidates) = 0 THEN Null
    ELSE IF existsSync(Head(candidates)) THEN Head(candidates)
    ELSE FirstExisting(Tail(candidates))

\* "Try adding extensions"
tryExtensions(resolved) ==
    FirstExisting([ i \in DOMAIN SOURCE_EXTENSIONS |-> resolved \o SOURCE_EXTENSIONS[i] ])

\* "Try as directory with index file"
tryIndex(resolved) ==
    IF existsSync(resolved) /\ isDirectory(resolved)
    THEN FirstExisting([ i \in DOMAIN SOURCE_EXTENSIONS |->
                           PathJoin(resolved, <<"i","n","d","e","x">> \o SOURCE_EXTENSIONS[i]) ])
    ELSE Null

\* resolveLocalImport that tries the index file before the extensions
resolveLocalImportIndexFirst(specifier, fromFile, rootDir) ==
    LET dir == PathDirname(fromFile)
        resolved == PathResolve(dir, specifier)
    IN IF existsSync(resolved) /\ isFile(resolved) THEN resolved
       ELSE IF tryIndex(resolved) # Null THEN tryIndex(resolved)
       ELSE tryExtensions(resolved)

resolveLocalImport(specifier, fromFile, rootDir) ==
    LET dir == PathDirname(fromFile)
        resolved == PathResolve(dir, specifier)
    IN IF existsSync(resolved) /\ isFile(resolved) THEN resolved
       ELSE IF tryExtensions(resolved) # Null THEN tryExtensions(resolved)
       ELSE tryIndex(resolved)

(***************************************************************************)
(* extractImports.  A text is the sequence of its tokens [k, s]: the words *)
(* import, export, from and require, the parentheses, "ws" for one         *)
(* whitespace character, "str" for a quoted non-empty literal with         *)
(* contents s, and "other" for any other run of characters without quotes, *)
(* whitespace or these words.  The three regular expressions are matched   *)
(* on the tokens with the priorities of a backtracking matcher: \s+ and    *)
(* \s* are greedy, the optional from-clause is tried before its absence,   *)
(* and [\s\S]*? is lazy.                                                   *)
(***************************************************************************)
Tok(kind) == [k |-> kind, s |-> <<>>]
Str(spec) == [k |-> "str", s |-> spec]

KindAt(text, i) == IF i \in DOMAIN text THEN text[i].k ELSE "eof"

\* the first position at or after p that holds no whitespace
RECURSIVE WsEnd(_, _)
WsEnd(text, p) == IF KindAt(text, p) = "ws" THEN WsEnd(text, p + 1) ELSE p

\* a failed match; a match is [at |-> position of the captured literal,
\* end |-> position after the match (lastIndex)]
NoMatch == [at |-> 0, end |-> 0]

\* \s+from\s+['"]([^'"]+)['"] at position q: the position of the literal, or 0
FromClause(text, q) ==
    IF KindAt(text, q) # "ws" THEN 0
    ELSE LET f == WsEnd(text, q) IN
         IF KindAt(text, f) # "from" \/ KindAt(text, f + 1) # "ws" THEN 0
         ELSE LET s == WsEnd(text, f + 1) IN
              IF KindAt(text, s) = "str" THEN s ELSE 0

\* [\s\S]*? followed by the from-clause: the nearest from-clause at or after q
RECURSIVE LazyFromClause(_, _)
LazyFromClause(text, q) ==
    IF q > Len(text) THEN 0
    ELSE IF FromClause(text, q) # 0 THEN FromClause(text, q)
    ELSE LazyFromClause(text, q + 1)

\* esImportRegex matched at position i
esImportRegex(text, i) ==
    IF KindAt(text, i) \notin {"import", "export"} \/ KindAt(text, i + 1) # "ws"
    THEN NoMatch
    ELSE LET p == WsEnd(text, i + 1)
             viaFrom == LazyFromClause(text, p)
             \* \s+ gives whitespace back to the from-clause
             viaBack == IF p - 1 > i + 1 THEN FromClause(text, p - 1) ELSE 0
         IN IF viaFrom # 0 THEN [at |-> viaFrom, end |-> viaFrom + 1]
            ELSE IF KindAt(text, p) = "str" THEN [at |-> p, end |-> p + 1]
            ELSE IF viaBack # 0 THEN [at |-> viaBack, end |-> viaBack + 1]
            ELSE NoMatch

\* callee\s*\(\s*['"]([^'"]+)['"]\s*\) matched at position i
callRegex(callee, text, i) ==
    IF KindAt(text, i) # callee THEN NoMatch
    ELSE LET l == WsEnd(text, i + 1) IN
         IF KindAt(text, l) # "lparen" THEN NoMatch
         ELSE LET s == WsEnd(text, l + 1) IN
              IF KindAt(text, s) # "str" THEN NoMatch
              ELSE LET r == WsEnd(text, s + 1) IN
                   IF KindAt(text, r) # "rparen" THEN NoMatch
                   ELSE [at |-> s, end |-> r + 1]

dynamicImportRegex(text, i) == callRegex("import", text, i)
requireRegex(text, i) == callRegex("require", text, i)

\* one regular expression at one position
MatchAt(form, text, i) ==
    IF form = "es" THEN esImportRegex(text, i)
    ELSE IF form = "dynamic" THEN dynamicImportRegex(text, i)
    ELSE requireRegex(text, i)

\* while ((match = regex.exec(content)) !== null): the positions of the
\* captured literals of the successive matches from lastIndex on
RECURSIVE execAll(_, _, _)
execAll(form, text, lastIndex) ==
    IF lastIndex > Len(text) THEN <<>>
    ELSE LET m == MatchAt(form, text, lastIndex) IN
         IF m.at = 0 THEN execAll(form, text, lastIndex + 1)
         ELSE <<m.at>> \o execAll(form, text, m.end)

\* the specifiers one loop pushes
pushed(form, text) ==
    LET at == execAll(form, text, 1) IN [ i \in DOMAIN at |-> text[at[i]].s ]

\* extractImports with the require loop before the dynamic-import loop
extractImportsRequireFirst(content) ==
    Dedup(pushed("es", content) \o pushed("require", content) \o pushed("dynamic", content))

extractImports(content) ==
    Dedup(pushed("es", content) \o pushed("dynamic", content) \o pushed("require", content))

(***************************************************************************)
(* parseProject                                                            *)
(***************************************************************************)
\* process.cwd()
Cwd == <<"/">>

\* const absoluteRoot = path.resolve(rootDir)
absoluteRoot == PathResolve(Cwd, targetDir)

getLocalId(filePath) == PathRelative(absoluteRoot, filePath)

\* nodesMap.has(id)
has(nodes, id) == \E i \in DOMAIN nodes : nodes[i].id = id

\* getOrCreateNode with the test of nodesMap.has(id) inverted
getOrCreateNodeInverted(nodes, id, type, ext) ==
    IF has(nodes, id)
    THEN Append(nodes, [id |-> id, label |-> id, type |-> type, extension |-> ext])
    ELSE nodes

\* getOrCreateNode without the test of nodesMap.has(id)
getOrCreateNodeAlways(nodes, id, type, ext) ==
    Append(nodes, [id |-> id, label |-> id, type |-> type, extension |-> ext])

\* getOrCreateNode, on the insertion-ordered values of nodesMap
getOrCreateNode(nodes, id, type, ext) ==
    IF ~has(nodes, id)
    THEN Append(nodes, [id |-> id, label |-> id, type |-> type, extension |-> ext])
    ELSE nodes

\* links.push(link) that skips a link already in the list
pushLinkOnce(ls, link) == IF link \in Range(ls) THEN ls ELSE Append(ls, link)

\* links.push(link)
pushLink(ls, link) == Append(ls, link)

\* localTarget that keys an unresolved specifier by its normalised path
localTargetNormalised(specifier, file) ==
    LET resolved == resolveLocalImport(specifier, file, absoluteRoot) IN
    IF resolved # Null
    THEN [id |-> getLocalId(resolved), type |-> "local", ext |-> PathExtname(resolved)]
    ELSE [id |-> getLocalId(PathResolve(PathDirname(file), specifier)), type |-> "local",
          ext |-> PathExtname(specifier)]

\* the node of a local specifier
localTarget(specifier, file) ==
    LET resolved == resolveLocalImport(specifier, file, absoluteRoot) IN
    IF resolved # Null
    THEN [id |-> getLocalId(resolved), type |-> "local", ext |-> PathExtname(resolved)]
    ELSE [id |-> specifier, type |-> "local", ext |-> PathExtname(specifier)]

\* builtinTarget that keeps the specifier as the key
builtinTargetRaw(specifier) ==
    [id |-> specifier, type |-> "builtin", ext |-> <<>>]

\* the node of a built-in specifier
builtinTarget(specifier) ==
    [id |-> IF StartsWith(specifier, <<"n","o","d","e",":">>) THEN specifier ELSE <<"n","o","d","e",":">> \o specifier,
     type |-> "builtin", ext |-> <<>>]

\* packageTarget without the handling of scoped packages
packageTargetFirstSegment(specifier) ==
    [id |-> Split(specifier, "/")[1], type |-> "package", ext |-> <<>>]

\* the node of a package specifier
packageTarget(specifier) ==
    LET parts == Split(specifier, "/") IN
    [id |-> IF StartsWith(specifier, <<"@">>) /\ Len(parts) >= 2
            THEN parts[1] \o <<"/">> \o parts[2]
            ELSE parts[1],
     type |-> "package", ext |-> <<>>]

\* the body of the loop over specifiers up to links.push: targetId and the
\* arguments of getOrCreateNode
targetOf(specifier, file) ==
    LET importType == classifyImport(specifier) IN
    IF importType = "local" THEN localTarget(specifier, file)
    ELSE IF importType = "builtin" THEN builtinTarget(specifier)
    ELSE packageTarget(specifier)

\* links kept from the invocation before
newLinksStale == links

\* the fresh nodesMap and links of an invocation
newNodesMap == <<>>
newLinks == <<>>

EmptyGraph == [nodes |-> <<>>, links |-> <<>>]

\* parseProject is called: discovery, and the empty map and list
Invoke ==
    /\ pc \in {"idle", "done"}
    /\ run < MaxRuns
    /\ run' = run + 1
    /\ prevGraph' = graph
    /\ sourceFiles' = collectSourceFiles(absoluteRoot)
    /\ nodesMap' = newNodesMap
    /\ links' = newLinks
    /\ fileIdx' = 1
    /\ pc' = IF Len(sourceFiles') = 0 THEN "parse" ELSE "register"
    /\ UNCHANGED <<fs, specifiers, specIdx, graph, arg, ret, targetDir, cli, requests>>

\* Register that leaves the nodes of the files to the loop over specifiers
RegisterNothing ==
    /\ pc = "register"
    /\ nodesMap' = nodesMap
    /\ IF fileIdx < Len(sourceFiles)
       THEN fileIdx' = fileIdx + 1 /\ pc' = pc
       ELSE fileIdx' = 1 /\ pc' = "parse"
    /\ UNCHANGED <<fs, sourceFiles, links, specifiers, specIdx, graph, prevGraph, run, arg, ret, targetDir, cli, requests>>

\* one iteration of "Register all source files as nodes"
Register ==
    /\ pc = "register"
    /\ LET file == sourceFiles[fileIdx]
           relPath == getLocalId(file)
           ext == PathExtname(file)
       IN nodesMap' = getOrCreateNode(nodesMap, relPath, "local", ext)
    /\ IF fileIdx < Len(sourceFiles)
       THEN fileIdx' = fileIdx + 1 /\ pc' = pc
       ELSE fileIdx' = 1 /\ pc' = "parse"
    /\ UNCHANGED <<fs, sourceFiles, links, specifiers, specIdx, graph, prevGraph, run, arg, ret, targetDir, cli, requests>>

\* the position after the last specifier of the file at fileIdx
NextFile ==
    /\ fileIdx' = fileIdx + 1
    /\ pc' = "parse"

\* ReadFileThrows that leaves the loop over the files instead of continuing
ReadFileThrowsBreak ==
    /\ pc = "parse"
    /\ fileIdx <= Len(sourceFiles)
    /\ ~fs[sourceFiles[fileIdx]].ok
    /\ fileIdx' = Len(sourceFiles) + 1
    /\ pc' = "parse"
    /\ UNCHANGED <<fs, sourceFiles, nodesMap, links, specifiers, specIdx, graph, prevGraph,
                   run, arg, ret, targetDir, cli, requests>>

\* readFileSync throws: continue
ReadFileThrows ==
    /\ pc = "parse"
    /\ fileIdx <= Len(sourceFiles)
    /\ ~fs[sourceFiles[fileIdx]].ok
    /\ NextFile
    /\ UNCHANGED <<fs, sourceFiles, nodesMap, links, specifiers, specIdx, graph, prevGraph,
                   run, arg, ret, targetDir, cli, requests>>

\* readFileSync and extractImports of the file at fileIdx
ReadFile ==
    /\ pc = "parse"
    /\ fileIdx <= Len(sourceFiles)
    /\ fs[sourceFiles[fileIdx]].ok
    /\ specifiers' = extractImports(fs[sourceFiles[fileIdx]].data)
    /\ specIdx' = 1
    /\ IF Len(specifiers') = 0
       THEN NextFile
       ELSE fileIdx' = fileIdx /\ pc' = "link"
    /\ UNCHANGED <<fs, sourceFiles, nodesMap, links, graph, prevGraph, run, arg, ret, targetDir, cli, requests>>

\* one iteration of the loop over specifiers
ProcessSpecifier ==
    /\ pc = "link"
    /\ LET file == sourceFiles[fileIdx]
           sourceId == getLocalId(file)
           t == targetOf(specifiers[specIdx], file)
       IN /\ nodesMap' = getOrCreateNode(nodesMap, t.id, t.type, t.ext)
          /\ links' = pushLink(links, [source |-> sourceId, target |-> t.id])
    /\ IF specIdx < Len(specifiers)
       THEN specIdx' = specIdx + 1 /\ fileIdx' = fileIdx /\ pc' = pc
       ELSE specIdx' = specIdx /\ NextFile
    /\ UNCHANGED <<fs, sourceFiles, specifiers, graph, prevGraph, run, arg, ret, targetDir, cli, requests>>

\* return { nodes: Array.from(nodesMap.values()), links }
Return ==
    /\ pc = "parse"
    /\ fileIdx > Len(sourceFiles)
    /\ graph' = [nodes |-> nodesMap, links |-> links]
    /\ pc' = "done"
    /\ UNCHANGED <<fs, sourceFiles, nodesMap, links, fileIdx, specifiers, specIdx, prevGraph,
                   run, arg, ret, targetDir, cli, requests>>

(***************************************************************************)
(* Inputs: texts and filesystems                                           *)
(***************************************************************************)
\* all sequences over S of length at most n
SeqsUpTo(S, n) == UNION { [1..k -> S] : k \in 0..n }

\* the concatenation of a sequence of sequences
RECURSIVE Flatten(_)
Flatten(ss) == IF Len(ss) = 0 THEN <<>> ELSE Head(ss) \o Flatten(Tail(ss))

Forms == {"from", "side", "export", "dynamic", "spaced", "require"}

\* one statement of a text, in one of the forms, followed by "; "
Stmt(form, s) ==
    (  IF form = "from"         \* import x from 's'
       THEN <<Tok("import"), Tok("ws"), Tok("other"), Tok("ws"), Tok("from"), Tok("ws"), Str(s)>>
       ELSE IF form = "side"    \* import 's'
       THEN <<Tok("import"), Tok("ws"), Str(s)>>
       ELSE IF form = "export"  \* export * from 's'
       THEN <<Tok("export"), Tok("ws"), Tok("other"), Tok("ws"), Tok("from"), Tok("ws"), Str(s)>>
       ELSE IF form = "dynamic" \* import('s')
       THEN <<Tok("import"), Tok("lparen"), Str(s), Tok("rparen")>>
       ELSE IF form = "spaced"  \* import ( 's' )
       THEN <<Tok("import"), Tok("ws"), Tok("lparen"), Tok("ws"), Str(s), Tok("ws"), Tok("rparen")>>
       ELSE                     \* c = require('s')
            <<Tok("other"), Tok("ws"), Tok("require"), Tok("lparen"), Str(s), Tok("rparen")>>
    ) \o <<Tok("other"), Tok("ws")>>

\* import x from './a'; import('./b'); const c = require('./c'); import './d';
FixtureText ==
    <<Tok("import"), Tok("ws"), Tok("other"), Tok("ws"), Tok("from"), Tok("ws"), Str(<<".","/","a">>),
      Tok("other"), Tok("ws"),
      Tok("import"), Tok("lparen"), Str(<<".","/","b">>), Tok("rparen"), Tok("other"), Tok("ws"),
      Tok("other"), Tok("ws"), Tok("other"), Tok("ws"), Tok("other"), Tok("ws"),
      Tok("require"), Tok("lparen"), Str(<<".","/","c">>), Tok("rparen"), Tok("other"), Tok("ws"),
      Tok("import"), Tok("ws"), Str(<<".","/","d">>), Tok("other")>>

\* the texts extractImports is applied to
ExtractSpecifiers == { <<".","/","a">>, <<".","/","b">> }
ExtractTexts ==
    { Flatten(ss) : ss \in SeqsUpTo({ Stmt(f, s) : f \in Forms, s \in ExtractSpecifiers },
                                    MaxStmts) }
    \cup { FixtureText }

\* the specifiers classifyImport is applied to: a prefix and a body
ClassifyPrefixes == { <<>>, <<".">>, <<"/">>, <<".","/">>, <<".",".","/">>, <<"@">>, <<"n","o","d","e",":">>, <<"n","o","d","e">> }
ClassifyChars == { "f", "s", "/", ".", "@" }
ClassifyInputs ==
    { p \o b : p \in ClassifyPrefixes, b \in SeqsUpTo(ClassifyChars, MaxBodyLen) } \ { <<>> }

\* the specifiers of the varied file /r/a.ts of a scanned project, each with
\* the form of the statement that mentions it
ProjectStmts ==
    { Stmt("from", <<".","/","b">>), Stmt("side", <<".","/","b",".","t","s">>), Stmt("require", <<".","/","l","i","b">>),
      Stmt("from", <<"l","o","d","a","s","h","/","f","p">>), Stmt("dynamic", <<"@","s","c","o","p","e","/","p","k","g","/","s","u","b","p","a","t","h">>),
      Stmt("require", <<"f","s">>), Stmt("side", <<"b",".","t","s">>) }

ProjectTexts == { Flatten(ss) : ss \in SeqsUpTo(ProjectStmts, MaxImports) }

\* the texts of the other files
TextB == Stmt("from", <<".","/","a">>) \o Stmt("require", <<"l","o","d","a","s","h">>) \o Stmt("dynamic", <<"@","s","c","o","p","e","/","p","k","g">>)
TextLib == Stmt("from", <<"n","o","d","e",":","f","s">>)
TextIndex == Stmt("export", <<".",".","/","l","i","b">>)
TextOther == Stmt("require", <<".","/","x">>)

\* A layout says which of the optional paths exist: b is "none", "ok" or
\* "unreadable"; lib is "none", "file" or "dir"; the others are flags.
Present(layout) ==
    { <<"/","r">>, <<"/","r","/","a",".","t","s">>, <<"/","r","/","n","o","d","e","_","m","o","d","u","l","e","s">>, <<"/","r","/","n","o","d","e","_","m","o","d","u","l","e","s","/","m",".","j","s">>, <<"/","r","/",".","e","n","v",".","t","s">>, <<"/","r","/","n","o","t","e","s",".","m","d">> }
    \cup (IF layout.b # "none" THEN { <<"/","r","/","b",".","t","s">> } ELSE {})
    \cup (IF layout.lib # "none" THEN { <<"/","r","/","l","i","b">> } ELSE {})
    \cup (IF layout.libts THEN { <<"/","r","/","l","i","b",".","t","s">> } ELSE {})
    \cup (IF layout.libjs THEN { <<"/","r","/","l","i","b",".","j","s">> } ELSE {})
    \cup (IF layout.lib = "dir" /\ layout.indexts THEN { <<"/","r","/","l","i","b","/","i","n","d","e","x",".","t","s">> } ELSE {})
    \cup (IF layout.lib = "dir" /\ layout.indexjs THEN { <<"/","r","/","l","i","b","/","i","n","d","e","x",".","j","s">> } ELSE {})

File(data, ok) == [type |-> "file", data |-> data, ok |-> ok]
Dir == [type |-> "dir", data |-> <<>>, ok |-> TRUE]

\* the filesystem of a layout, with textA the text of /r/a.ts
MakeFs(layout, textA) ==
    [ p \in Present(layout) |->
        IF p \in { <<"/","r">>, <<"/","r","/","n","o","d","e","_","m","o","d","u","l","e","s">> } THEN Dir
        ELSE IF p = <<"/","r","/","l","i","b">> THEN (IF layout.lib = "dir" THEN Dir ELSE File(TextOther, TRUE))
        ELSE IF p = <<"/","r","/","a",".","t","s">> THEN File(textA, TRUE)
        ELSE IF p = <<"/","r","/","b",".","t","s">> THEN File(TextB, layout.b = "ok")
        ELSE IF p = <<"/","r","/","l","i","b",".","t","s">> THEN File(TextLib, TRUE)
        ELSE IF p = <<"/","r","/","l","i","b","/","i","n","d","e","x",".","t","s">> THEN File(TextIndex, TRUE)
        ELSE File(TextOther, TRUE) ]

\* the directories of the discovery layouts
CollectDirs ==
    { <<"/","r">>, <<"/","r","/","s","r","c">>, <<"/","r","/","s","r","c","/","s","u","b">>, <<"/","r","/","s","r","c","/","b","u","i","l","d">>, <<"/","r","/","d","i","s","t">>, <<"/","r","/",".","c","f","g">> }

\* the paths of a discovery layout: src and src/sub are absent, listable or
\* not listable; extras adds hidden, ignored and other entries
CollectPresent(layout) ==
    { <<"/","r">>, <<"/","r","/","a",".","t","s">>, <<"/","r","/","z",".","t","s">> }
    \cup (IF layout.upper THEN { <<"/","r","/","B",".","T","S">> } ELSE {})
    \cup (IF layout.src # "none" THEN { <<"/","r","/","s","r","c">>, <<"/","r","/","s","r","c","/","c",".","j","s">> } ELSE {})
    \cup (IF layout.src # "none" /\ layout.sub # "none"
          THEN { <<"/","r","/","s","r","c","/","s","u","b">>, <<"/","r","/","s","r","c","/","s","u","b","/","d",".","v","u","e">> } ELSE {})
    \cup (IF layout.extras
          THEN { <<"/","r","/","d","i","s","t">>, <<"/","r","/","d","i","s","t","/","e",".","j","s">>, <<"/","r","/",".","c","f","g">>, <<"/","r","/",".","c","f","g","/","h",".","t","s">>, <<"/","r","/",".","e","n","v",".","t","s">>,
                 <<"/","r","/","n","o","t","e","s",".","m","d">>, <<"/","r","/","l","n",".","t","s">> }
               \cup (IF layout.src # "none"
                     THEN { <<"/","r","/","s","r","c","/","b","u","i","l","d">>, <<"/","r","/","s","r","c","/","b","u","i","l","d","/","o",".","j","s">>, <<"/","r","/","s","r","c","/",".","h","i","d",".","t","s">> }
                     ELSE {})
          ELSE {})

\* the filesystem of a discovery layout; ln.ts is a symbolic link
CollectFs(layout) ==
    [ p \in CollectPresent(layout) |->
        IF p \in CollectDirs
        THEN [type |-> "dir", data |-> <<>>,
              ok |-> /\ (p = <<"/","r">> => layout.root)
                     /\ (p = <<"/","r","/","s","r","c">> => layout.src = "ok")
                     /\ (p = <<"/","r","/","s","r","c","/","s","u","b">> => layout.sub = "ok")]
        ELSE IF p = <<"/","r","/","l","n",".","t","s">> THEN [type |-> "link", data |-> <<>>, ok |-> TRUE]
        ELSE File(TextOther, TRUE) ]

CollectLayouts ==
    { [root |-> root, src |-> src, sub |-> sub, upper |-> upper, extras |-> extras] :
        root \in BOOLEAN, src \in {"none", "ok", "unlistable"},
        sub \in {"none", "ok", "unlistable"}, upper \in BOOLEAN, extras \in BOOLEAN }

ProjectLayouts ==
    { [b |-> b, lib |-> lib, libts |-> libts, libjs |-> FALSE,
       indexts |-> TRUE, indexjs |-> FALSE] :
        b \in {"none", "ok", "unreadable"}, lib \in {"none", "dir"}, libts \in BOOLEAN }

\* the targets given on the command line
CliTargets ==
    { <<"/","r">>, <<"r">>, <<"r","/","l","i","b">>, <<"/","r","/","l","i","b">>, <<"/","r","/","a",".","t","s">>, <<"/","g","o","n","e">>, <<"u","/","r","e","p","o">>,
      <<"h","t","t","p","s",":","/","/","g","i","t","h","u","b",".","c","o","m","/","u","/","r","e","p","o">>, <<"g","i","t","h","u","b",".","c","o","m","/","u","/","r","e","p","o",".","g","i","t">> }

\* the values of --port
CliPorts == { <<"3","0","0","0">>, <<"0">>, <<"a","b","c">>, <<"6","5","5","3","6">> }

\* the filesystems the command-line program starts on
CliLayouts ==
    { l \in ProjectLayouts : (l.b = "ok" /\ l.lib = "dir" /\ l.libts)
                             \/ (l.b = "unreadable" /\ l.lib = "none" /\ ~l.libts) }

\* the request targets sent to the server
RequestTargets ==
    { <<"/","a","p","i","/","g","r","a","p","h">>, <<"/","a","p","i","/","g","r","a","p","h","?","v","=","1">>, <<"/">>, <<"/","a","p","p",".","j","s">>, <<"/","g","o","n","e">>, <<"/","a","s","s","e","t","s">>, <<"/","a","p","p",".","j","s","/","x">>,
      <<"/",".",".","/",".",".","/","e","t","c","/","p","a","s","s","w","d">>, <<"/","/">> }

\* the built UI directory, with index.html readable, unreadable or absent
ServerFs(index) ==
    [ p \in { <<"/","a","p","p">>, <<"/","a","p","p","/","u","i">>, <<"/","a","p","p","/","u","i","/","a","s","s","e","t","s">>, <<"/","a","p","p","/","u","i","/","a","p","p",".","j","s">> }
            \cup (IF index = "none" THEN {} ELSE { <<"/","a","p","p","/","u","i","/","i","n","d","e","x",".","h","t","m","l">> }) |->
        IF p \in { <<"/","a","p","p">>, <<"/","a","p","p","/","u","i">>, <<"/","a","p","p","/","u","i","/","a","s","s","e","t","s">> } THEN Dir
        ELSE IF p = <<"/","a","p","p","/","u","i","/","i","n","d","e","x",".","h","t","m","l">> THEN File(<<Tok("other")>>, index = "ok")
        ELSE File(TextOther, TRUE) ]

\* the graphs given to startServer
ServerGraphs ==
    { [nodes |-> << [id |-> <<"a",".","t","s">>, label |-> <<"a",".","t","s">>, type |-> "local", extension |-> <<".","t","s">>] >>,
       links |-> <<>>],
      [nodes |-> << [id |-> <<"a",".","t","s">>, label |-> <<"a",".","t","s">>, type |-> "local", extension |-> <<".","t","s">>],
                    [id |-> <<"n","o","d","e",":","f","s">>, label |-> <<"n","o","d","e",":","f","s">>, type |-> "builtin",
                     extension |-> <<>>] >>,
       links |-> << [source |-> <<"a",".","t","s">>, target |-> <<"n","o","d","e",":","f","s">>] >>] }

ResolveLayouts ==
    { [b |-> b, lib |-> lib, libts |-> libts, libjs |-> libjs,
       indexts |-> indexts, indexjs |-> indexjs] :
        b \in {"none", "ok"}, lib \in {"none", "file", "dir"}, libts \in BOOLEAN,
        libjs \in BOOLEAN, indexts \in BOOLEAN, indexjs \in BOOLEAN }

ResolveSpecifiers ==
    { <<".","/","l","i","b">>, <<".","/","l","i","b",".","t","s">>, <<".","/","l","i","b","/","i","n","d","e","x">>, <<".",".","/","r","/","l","i","b">>, <<"/","r","/","l","i","b">>, <<".","/","l","i","b","/">>, <<".","/","b">>, <<".","/","g","o","n","e">> }

\* the file the resolved specifiers are written in
FromFile == <<"/","r","/","a",".","t","s">>

(***************************************************************************)
(* cli.ts                                                                  *)
(***************************************************************************)
\* the characters of [A-Za-z0-9_.-]
RepoChars ==
    DOMAIN UpperToLower \cup { UpperToLower[c] : c \in DOMAIN UpperToLower }
    \cup Range(<<"0","1","2","3","4","5","6","7","8","9">>) \cup { "_", ".", "-" }

\* String.prototype.endsWith
EndsWith(s, suffix) ==
    /\ Len(s) >= Len(suffix)
    /\ SubSeq(s, Len(s) - Len(suffix) + 1, Len(s)) = suffix

\* ([A-Za-z0-9_.-]+)\/([A-Za-z0-9_.-]+)$ on the rest of the input: the two
\* groups, or no match
UserRepo(rest) ==
    LET parts == Split(rest, "/") IN
    IF /\ Len(parts) = 2
       /\ Len(parts[1]) >= 1
       /\ Len(parts[2]) >= 1
       /\ Range(parts[1]) \cup Range(parts[2]) \subseteq RepoChars
    THEN <<parts>>
    ELSE <<>>

\* the second group when it is lazy and followed by (?:\.git)?$
LazyRepo(repo) ==
    IF EndsWith(repo, <<".","g","i","t">>) /\ Len(repo) > 4
    THEN SubSeq(repo, 1, Len(repo) - 4)
    ELSE repo

\* parseGitHubInput(input): a one-element sequence, or the empty one for null
parseGitHubInput(input) ==
    LET https == IF StartsWith(input, <<"h","t","t","p","s",":","/","/","g","i","t","h","u","b",".","c","o","m","/">>)
                 THEN UserRepo(SubSeq(input, 20, Len(input)))
                 ELSE IF StartsWith(input, <<"h","t","t","p",":","/","/","g","i","t","h","u","b",".","c","o","m","/">>)
                      THEN UserRepo(SubSeq(input, 19, Len(input)))
                      ELSE <<>>
        noProto == IF StartsWith(input, <<"g","i","t","h","u","b",".","c","o","m","/">>)
                   THEN UserRepo(SubSeq(input, 12, Len(input)))
                   ELSE <<>>
        short == UserRepo(input)
    IN IF https # <<>>
       THEN << [cloneUrl |-> IF EndsWith(input, <<".","g","i","t">>) THEN input ELSE input \o <<".","g","i","t">>,
                repoName |-> https[1][1] \o <<"/">> \o LazyRepo(https[1][2])] >>
       ELSE IF noProto # <<>>
       THEN << [cloneUrl |-> <<"h","t","t","p","s",":","/","/">> \o input
                             \o (IF EndsWith(input, <<".","g","i","t">>) THEN <<>> ELSE <<".","g","i","t">>),
                repoName |-> noProto[1][1] \o <<"/">> \o LazyRepo(noProto[1][2])] >>
       ELSE IF short # <<>> /\ "." \notin Range(input) /\ ":" \notin Range(input)
       THEN << [cloneUrl |-> <<"h","t","t","p","s",":","/","/","g","i","t","h","u","b",".","c","o","m","/">> \o input \o <<".","g","i","t">>, repoName |-> input] >>
       ELSE <<>>

\* the temporary directory of cloneRepo
TmpDir == <<"/","t">>

\* fs.rmSync(dir, { recursive: true, force: true })
rmSync(f, dir) ==
    [ p \in { q \in DOMAIN f : q # dir /\ ~StartsWith(q, dir \o <<"/">>) } |-> f[p] ]

\* what git clone leaves in the directory: a project, or no source file
Cloned(f, dir, outcome) ==
    [ p \in DOMAIN f \cup (IF outcome = "project"
                           THEN { dir \o <<"/","a",".","t","s">>, dir \o <<"/","b",".","t","s">> }
                           ELSE { dir \o <<"/","n","o","t","e","s",".","m","d">> }) |->
        IF p \in DOMAIN f THEN f[p]
        ELSE IF p = dir \o <<"/","a",".","t","s">> THEN File(TextB, TRUE)
        ELSE IF p = dir \o <<"/","b",".","t","s">> THEN File(TextLib, TRUE)
        ELSE File(TextOther, TRUE) ]

\* parseInt(s, 10) of a string without sign or leading white space: a
\* one-element sequence, or the empty one for NaN
RECURSIVE ParseDigits(_, _)
ParseDigits(s, acc) ==
    IF Len(s) = 0 \/ Head(s) \notin Range(<<"0","1","2","3","4","5","6","7","8","9">>) THEN acc
    ELSE ParseDigits(Tail(s),
                     acc * 10 + ((CHOOSE i \in 1..10 : <<"0","1","2","3","4","5","6","7","8","9">>[i] = Head(s)) - 1))

parseInt(s) ==
    IF Len(s) = 0 \/ Head(s) \notin Range(<<"0","1","2","3","4","5","6","7","8","9">>) THEN <<>> ELSE <<ParseDigits(s, 0)>>

\* the filter that keeps the links
filterKindNodesOnly(g, kind) ==
    LET Keep(n) == n.type # kind
    IN [nodes |-> SelectSeq(g.nodes, Keep), links |-> g.links]

\* one block of "Apply filters": the nodes of a kind and their links removed
filterKind(g, kind) ==
    LET ids == { g.nodes[i].id : i \in { k \in DOMAIN g.nodes : g.nodes[k].type = kind } }
        Keep(n) == n.type # kind
        KeepLink(l) == l.source \notin ids /\ l.target \notin ids
    IN [nodes |-> SelectSeq(g.nodes, Keep), links |-> SelectSeq(g.links, KeepLink)]

\* the process has not ended
Alive == cli.at \notin {"none", "exited"}

\* the listeners of the 'exit' event run
onExit(f) == IF cli.handlers THEN rmSync(f, cli.tmpDir) ELSE f

\* process.exit(code) after writing messages to stderr
Exit(code, messages) ==
    /\ cli' = [cli EXCEPT !.at = "exited", !.exit = <<code>>, !.stderr = @ \o messages]
    /\ fs' = onExit(fs)

\* lines 98-104: the target is read and tested for a GitHub form
ParseTarget ==
    /\ cli.at = "start"
    /\ \E target \in CliTargets :
          LET githubInfo == parseGitHubInput(target)
          IN cli' = [cli EXCEPT !.target = target, !.githubInfo = githubInfo,
                                !.at = IF githubInfo # <<>> THEN "cloneRepo" ELSE "local"]
    /\ UNCHANGED <<fs, pc, sourceFiles, nodesMap, links, fileIdx, specifiers, specIdx, graph,
                   prevGraph, run, arg, ret, targetDir, requests>>

\* cloneRepo, lines 55-58: the temporary directory is made
CloneMkdir ==
    /\ cli.at = "cloneRepo"
    /\ fs' = [ p \in DOMAIN fs \cup {TmpDir} |-> IF p = TmpDir THEN Dir ELSE fs[p] ]
    /\ cli' = [cli EXCEPT !.cloneDir = TmpDir, !.at = "cloning"]
    /\ UNCHANGED <<pc, sourceFiles, nodesMap, links, fileIdx, specifiers, specIdx, graph,
                   prevGraph, run, arg, ret, targetDir, requests>>

\* cloneRepo, lines 59-78, and lines 107-108: git clone ends
CloneDone ==
    /\ cli.at = "cloning"
    /\ \E outcome \in {"failed", "project", "empty"} :
          IF outcome = "failed"
          THEN /\ cli' = [cli EXCEPT !.at = "exited", !.exit = <<1>>,
                                     !.stderr = @ \o <<"Failed to clone repository">>]
               /\ fs' = onExit(rmSync(fs, cli.cloneDir))
               /\ targetDir' = targetDir
          ELSE /\ fs' = Cloned(fs, cli.cloneDir, outcome)
               /\ cli' = [cli EXCEPT !.tmpDir = cli.cloneDir, !.at = "scan"]
               /\ targetDir' = cli.cloneDir
    /\ UNCHANGED <<pc, sourceFiles, nodesMap, links, fileIdx, specifiers, specIdx, graph,
                   prevGraph, run, arg, ret, requests>>

\* CheckLocal without the test of isDirectory
CheckLocalExistsOnly ==
    /\ cli.at = "local"
    /\ targetDir' = PathResolve(Cwd, cli.target)
    /\ IF ~existsSync(targetDir')
       THEN Exit(1, <<"Directory not found">>)
       ELSE cli' = [cli EXCEPT !.at = "scan"] /\ fs' = fs
    /\ UNCHANGED <<pc, sourceFiles, nodesMap, links, fileIdx, specifiers, specIdx, graph,
                   prevGraph, run, arg, ret, requests>>

\* lines 110-122: the local directory is resolved and tested
CheckLocal ==
    /\ cli.at = "local"
    /\ targetDir' = PathResolve(Cwd, cli.target)
    /\ IF ~existsSync(targetDir')
       THEN Exit(1, <<"Directory not found">>)
       ELSE IF ~isDirectory(targetDir')
            THEN Exit(1, <<"Not a directory">>)
            ELSE cli' = [cli EXCEPT !.at = "scan"] /\ fs' = fs
    /\ UNCHANGED <<pc, sourceFiles, nodesMap, links, fileIdx, specifiers, specIdx, graph,
                   prevGraph, run, arg, ret, requests>>

\* lines 124-134: the cleanup listeners are registered for a clone
RegisterCleanup ==
    /\ cli.at = "scan"
    /\ cli' = [cli EXCEPT !.handlers = (cli.tmpDir # <<>>), !.at = "parseProject"]
    /\ UNCHANGED <<fs, pc, sourceFiles, nodesMap, links, fileIdx, specifiers, specIdx, graph,
                   prevGraph, run, arg, ret, targetDir, requests>>

\* line 138: parseProject(targetDir) is called, and runs
Scanning == cli.at = "parseProject"

\* lines 141-164: the filters, with the options read from the command line
ApplyFilters ==
    /\ Scanning
    /\ pc = "done"
    /\ \E packages \in BOOLEAN, builtins \in BOOLEAN :
          LET g1 == IF packages = FALSE THEN filterKind(graph, "package") ELSE graph
              g2 == IF builtins = FALSE THEN filterKind(g1, "builtin") ELSE g1
          IN cli' = [cli EXCEPT !.packages = packages, !.builtins = builtins,
                                !.graph = g2, !.at = "report"]
    /\ UNCHANGED <<fs, pc, sourceFiles, nodesMap, links, fileIdx, specifiers, specIdx, graph,
                   prevGraph, run, arg, ret, targetDir, requests>>

\* lines 166-184: statistics, the exit without source files, JSON output
Report ==
    /\ cli.at = "report"
    /\ \E json \in BOOLEAN :
          IF Len(cli.graph.nodes) = 0
          THEN Exit(0, <<>>)
          ELSE IF json
               THEN /\ cli' = [cli EXCEPT !.at = "exited", !.exit = <<0>>,
                                          !.printed = <<cli.graph>>]
                    /\ fs' = onExit(fs)
               ELSE cli' = [cli EXCEPT !.at = "port"] /\ fs' = fs
    /\ UNCHANGED <<pc, sourceFiles, nodesMap, links, fileIdx, specifiers, specIdx, graph,
                   prevGraph, run, arg, ret, targetDir, requests>>

\* lines 187-191: the port option
CheckPort ==
    /\ cli.at = "port"
    /\ \E option \in CliPorts :
          LET port == parseInt(option)
          IN IF port = <<>> \/ port[1] < 1 \/ port[1] > 65535
             THEN Exit(1, <<"Invalid port number">>)
             ELSE cli' = [cli EXCEPT !.port = port, !.at = "startServer"] /\ fs' = fs
    /\ UNCHANGED <<pc, sourceFiles, nodesMap, links, fileIdx, specifiers, specIdx, graph,
                   prevGraph, run, arg, ret, targetDir, requests>>

\* lines 193-215: startServer resolves when the server listens and rejects
\* on its 'error' event
StartServer ==
    /\ cli.at = "startServer"
    /\ \E listening \in BOOLEAN :
          IF listening
          THEN cli' = [cli EXCEPT !.at = "serving", !.serving = <<cli.graph>>] /\ fs' = fs
          ELSE Exit(1, <<"Failed to start server">>)
    /\ UNCHANGED <<pc, sourceFiles, nodesMap, links, fileIdx, specifiers, specIdx, graph,
                   prevGraph, run, arg, ret, targetDir, requests>>

\* SIGINT or SIGTERM reaches the process: the registered listener cleans up
\* and exits with 0; without a listener the signal ends the process
Signal ==
    /\ Alive
    /\ \E sig \in {"SIGINT", "SIGTERM"} :
          IF cli.handlers
          THEN /\ cli' = [cli EXCEPT !.at = "exited", !.exit = <<0>>]
               /\ fs' = onExit(rmSync(fs, cli.tmpDir))
          ELSE /\ cli' = [cli EXCEPT !.at = "exited", !.killed = TRUE,
                                     !.exit = <<IF sig = "SIGINT" THEN 130 ELSE 143>>]
               /\ fs' = fs
    /\ UNCHANGED <<pc, sourceFiles, nodesMap, links, fileIdx, specifiers, specIdx, graph,
                   prevGraph, run, arg, ret, targetDir, requests>>

(***************************************************************************)
(* server.ts                                                               *)
(***************************************************************************)
MIME_TYPES ==
    << [ext |-> <<".","h","t","m","l">>, type |-> "text/html; charset=utf-8"],
       [ext |-> <<".","j","s">>, type |-> "application/javascript; charset=utf-8"],
       [ext |-> <<".","c","s","s">>, type |-> "text/css; charset=utf-8"],
       [ext |-> <<".","j","s","o","n">>, type |-> "application/json; charset=utf-8"],
       [ext |-> <<".","s","v","g">>, type |-> "image/svg+xml"],
       [ext |-> <<".","p","n","g">>, type |-> "image/png"],
       [ext |-> <<".","i","c","o">>, type |-> "image/x-icon"] >>

\* MIME_TYPES[ext] || "application/octet-stream"
contentType(ext) ==
    IF \E i \in DOMAIN MIME_TYPES : MIME_TYPES[i].ext = ext
    THEN MIME_TYPES[CHOOSE i \in DOMAIN MIME_TYPES : MIME_TYPES[i].ext = ext].type
    ELSE "application/octet-stream"

\* path.join(__dirname, "ui")
uiDir == <<"/","a","p","p","/","u","i">>

\* the input up to the first '?' or '#'
BeforeQuery(s) ==
    LET stops == { i \in DOMAIN s : s[i] \in {"?", "#"} }
    IN IF stops = {} THEN s
       ELSE SubSeq(s, 1, (CHOOSE i \in stops : \A j \in stops : i <= j) - 1)

RECURSIVE RemoveDotSegments(_, _)
\* the path segments of a URL with '.' and '..' resolved; a segment that
\* ends the path leaves an empty last segment
RemoveDotSegments(segs, acc) ==
    IF Len(segs) = 0 THEN acc
    ELSE LET s == Head(segs)
             last == Len(segs) = 1
         IN IF s = <<".",".">>
            THEN RemoveDotSegments(Tail(segs),
                    (IF Len(acc) > 0 THEN SubSeq(acc, 1, Len(acc) - 1) ELSE acc)
                    \o (IF last THEN << <<>> >> ELSE <<>>))
            ELSE IF s = <<".">>
                 THEN RemoveDotSegments(Tail(segs), acc \o (IF last THEN << <<>> >> ELSE <<>>))
                 ELSE RemoveDotSegments(Tail(segs), Append(acc, s))

\* new URL(input, "http://localhost:port").pathname for a request target
\* that begins with '/': a one-element sequence, or the empty one when the
\* constructor throws (a target '//...' names a host, which must not be empty)
urlPathname(input) ==
    LET raw == BeforeQuery(input) IN
    IF StartsWith(raw, <<"/","/">>)
    THEN LET rest == SubSeq(raw, 3, Len(raw))
             parts == Split(rest, "/")
             host == IF Len(rest) = 0 THEN <<>> ELSE parts[1]
         IN IF Len(host) = 0 THEN <<>>
            ELSE << <<"/">> \o Join(RemoveDotSegments(Tail(parts), <<>>), <<"/">>) >>
    ELSE << <<"/">> \o Join(RemoveDotSegments(Tail(Split(raw, "/")), <<>>), <<"/">>) >>

\* the error of fs.readFile(p), or "ok"
readFile(p) ==
    IF p \in DOMAIN fs
    THEN IF fs[p].type = "dir" THEN "EISDIR"
         ELSE IF ~fs[p].ok THEN "EACCES"
         ELSE "ok"
    ELSE IF PathDirname(p) \in DOMAIN fs /\ fs[PathDirname(p)].type # "dir" THEN "ENOTDIR"
    ELSE "ENOENT"

\* res.writeHead(status, ...) and res.end(body) on the response of a request
respond(r, status, type, body) ==
    [r EXCEPT !.at = "ended", !.heads = Append(@, status), !.ends = @ + 1,
              !.type = type, !.body = body]

\* a request arrives: the listener runs up to its return (lines 31-51)
Request ==
    /\ pc = "listening"
    /\ Len(requests) < MaxRequests
    /\ \E target \in RequestTargets :
          LET pathname == urlPathname(target)
              r == [url |-> target, at |-> "listener", filePath |-> <<>>, heads |-> <<>>,
                    ends |-> 0, type |-> "", body |-> <<>>]
          IN IF pathname = <<>>
             THEN /\ requests' = Append(requests, [r EXCEPT !.at = "thrown"])
                  /\ pc' = "crashed"
             ELSE /\ pc' = pc
                  /\ IF pathname[1] = <<"/","a","p","i","/","g","r","a","p","h">>
                     THEN requests' = Append(requests,
                              respond(r, 200, "application/json; charset=utf-8", <<graph>>))
                     ELSE LET filePath == PathJoin(uiDir, IF pathname[1] = <<"/">>
                                                          THEN <<"i","n","d","e","x",".","h","t","m","l">>
                                                          ELSE pathname[1])
                          IN IF ~StartsWith(filePath, uiDir)
                             THEN requests' = Append(requests, respond(r, 403, "", <<"F","o","r","b","i","d","d","e","n">>))
                             ELSE requests' = Append(requests,
                                      [r EXCEPT !.at = "readFile", !.filePath = filePath])
    /\ UNCHANGED <<fs, sourceFiles, nodesMap, links, fileIdx, specifiers, specIdx, graph,
                   prevGraph, run, arg, ret, targetDir, cli>>

\* the callback of fs.readFile(filePath) runs (lines 51-76)
ReadFileCallback ==
    /\ pc = "listening"
    /\ \E i \in DOMAIN requests :
          /\ requests[i].at = "readFile"
          /\ LET r == requests[i]
                 err == readFile(r.filePath)
             IN requests' = [requests EXCEPT ![i] =
                    IF err = "ENOENT" THEN [r EXCEPT !.at = "readIndex"]
                    ELSE IF err # "ok" THEN respond(r, 500, "", <<"I","n","t","e","r","n","a","l"," ","S","e","r","v","e","r"," ","E","r","r","o","r">>)
                    ELSE respond(r, 200, contentType(ToLowerCase(PathExtname(r.filePath))),
                                 fs[r.filePath].data)]
    /\ UNCHANGED <<fs, pc, sourceFiles, nodesMap, links, fileIdx, specifiers, specIdx, graph,
                   prevGraph, run, arg, ret, targetDir, cli>>

\* the callback of fs.readFile(indexPath) runs (lines 56-64)
ReadIndexCallback ==
    /\ pc = "listening"
    /\ \E i \in DOMAIN requests :
          /\ requests[i].at = "readIndex"
          /\ LET r == requests[i]
                 indexPath == PathJoin(uiDir, <<"i","n","d","e","x",".","h","t","m","l">>)
             IN requests' = [requests EXCEPT ![i] =
                    IF readFile(indexPath) # "ok" THEN respond(r, 404, "", <<"N","o","t"," ","F","o","u","n","d">>)
                    ELSE respond(r, 200, "text/html; charset=utf-8", fs[indexPath].data)]
    /\ UNCHANGED <<fs, pc, sourceFiles, nodesMap, links, fileIdx, specifiers, specIdx, graph,
                   prevGraph, run, arg, ret, targetDir, cli>>

(***************************************************************************)
(* Specifications                                                          *)
(***************************************************************************)
\* the command-line program is not running
NoCli == [at |-> "none"]

\* the variables of parseProject before its first invocation
Idle ==
    /\ sourceFiles = <<>>
    /\ nodesMap = <<>>
    /\ links = <<>>
    /\ fileIdx = 1
    /\ specifiers = <<>>
    /\ specIdx = 1
    /\ graph = EmptyGraph
    /\ prevGraph = EmptyGraph
    /\ run = 0
    /\ targetDir = <<"/","r">>
    /\ cli = NoCli
    /\ requests = <<>>

\* parseProject on a project directory
Init ==
    /\ fs \in { MakeFs(l, x) : l \in ProjectLayouts, x \in ProjectTexts }
    /\ pc = "idle"
    /\ Idle
    /\ arg = <<>>
    /\ ret = <<>>

Next ==
    \/ Invoke
    \/ Register
    \/ ReadFileThrows
    \/ ReadFile
    \/ ProcessSpecifier
    \/ Return

Spec == Init /\ [][Next]_vars

\* a pure function is called with arg and returns ret
Call(result) ==
    /\ pc = "call"
    /\ ret' = result
    /\ pc' = "returned"
    /\ UNCHANGED <<fs, sourceFiles, nodesMap, links, fileIdx, specifiers, specIdx, graph,
                   prevGraph, run, arg, targetDir, cli, requests>>

\* extractImports on a text
InitExtract ==
    /\ fs = MakeFs(CHOOSE l \in ProjectLayouts : l.b = "none" /\ l.lib = "none" /\ ~l.libts, <<>>)
    /\ pc = "call"
    /\ Idle
    /\ arg \in ExtractTexts
    /\ ret = <<>>

CallExtractImports == Call(extractImports(arg))

SpecExtract == InitExtract /\ [][CallExtractImports]_vars

\* classifyImport on a specifier
InitClassify ==
    /\ fs = MakeFs(CHOOSE l \in ProjectLayouts : l.b = "none" /\ l.lib = "none" /\ ~l.libts, <<>>)
    /\ pc = "call"
    /\ Idle
    /\ arg \in ClassifyInputs
    /\ ret = <<>>

CallClassifyImport == Call(classifyImport(arg))

SpecClassify == InitClassify /\ [][CallClassifyImport]_vars

\* resolveLocalImport on a specifier written in FromFile
InitResolve ==
    /\ fs \in { MakeFs(l, <<>>) : l \in ResolveLayouts }
    /\ pc = "call"
    /\ Idle
    /\ arg \in ResolveSpecifiers
    /\ ret = <<>>

CallResolveLocalImport == Call(resolveLocalImport(arg, FromFile, absoluteRoot))

SpecResolve == InitResolve /\ [][CallResolveLocalImport]_vars

\* between two invocations the files that could not be read become readable
\* and empty
MakeReadable ==
    /\ pc = "done"
    /\ run = 1
    /\ \E f \in DOMAIN fs : ~fs[f].ok
    /\ fs' = [ f \in DOMAIN fs |-> IF fs[f].ok THEN fs[f] ELSE File(<<>>, TRUE) ]
    /\ UNCHANGED <<pc, sourceFiles, nodesMap, links, fileIdx, specifiers, specIdx, graph,
                   prevGraph, run, arg, ret, targetDir, cli, requests>>

\* parseProject on a project directory with a file that cannot be read
InitUnreadable ==
    /\ fs \in { MakeFs(l, x) : l \in { p \in ProjectLayouts : p.b = "unreadable" },
                               x \in ProjectTexts }
    /\ pc = "idle"
    /\ Idle
    /\ arg = <<>>
    /\ ret = <<>>

NextUnreadable ==
    \/ Invoke
    \/ Register
    \/ ReadFileThrows
    \/ ReadFile
    \/ ProcessSpecifier
    \/ Return
    \/ MakeReadable

SpecUnreadable == InitUnreadable /\ [][NextUnreadable]_vars

\* collectSourceFiles on a directory
InitCollect ==
    /\ fs \in { CollectFs(l) : l \in CollectLayouts }
    /\ pc = "call"
    /\ Idle
    /\ arg \in { <<"/","r">>, <<"/","r","/","d","i","s","t">> } \cap DOMAIN fs
    /\ ret = <<>>

CallCollectSourceFiles == Call(collectSourceFiles(arg))

SpecCollect == InitCollect /\ [][CallCollectSourceFiles]_vars

\* the command-line program is started
InitCli ==
    /\ fs \in { MakeFs(l, x) : l \in CliLayouts, x \in ProjectTexts }
    /\ pc = "idle"
    /\ sourceFiles = <<>>
    /\ nodesMap = <<>>
    /\ links = <<>>
    /\ fileIdx = 1
    /\ specifiers = <<>>
    /\ specIdx = 1
    /\ graph = EmptyGraph
    /\ prevGraph = EmptyGraph
    /\ run = 0
    /\ arg = <<>>
    /\ ret = <<>>
    /\ targetDir = <<>>
    /\ requests = <<>>
    /\ cli = [at |-> "start", target |-> <<>>, githubInfo |-> <<>>, cloneDir |-> <<>>,
              tmpDir |-> <<>>, handlers |-> FALSE, packages |-> TRUE, builtins |-> TRUE,
              graph |-> EmptyGraph, printed |-> <<>>, port |-> <<>>, serving |-> <<>>,
              exit |-> <<>>, killed |-> FALSE, stderr |-> <<>>]

NextCli ==
    \/ ParseTarget
    \/ CloneMkdir
    \/ CloneDone
    \/ CheckLocal
    \/ RegisterCleanup
    \/ (Scanning /\ run = 0 /\ Invoke)
    \/ (Scanning /\ Register)
    \/ (Scanning /\ ReadFileThrows)
    \/ (Scanning /\ ReadFile)
    \/ (Scanning /\ ProcessSpecifier)
    \/ (Scanning /\ Return)
    \/ ApplyFilters
    \/ Report
    \/ CheckPort
    \/ StartServer
    \/ Signal

SpecCli == InitCli /\ [][NextCli]_vars

\* startServer(graph, port) listens
InitServer ==
    /\ fs \in { ServerFs(index) : index \in {"ok", "unreadable", "none"} }
    /\ graph \in ServerGraphs
    /\ pc = "listening"
    /\ sourceFiles = <<>>
    /\ nodesMap = <<>>
    /\ links = <<>>
    /\ fileIdx = 1
    /\ specifiers = <<>>
    /\ specIdx = 1
    /\ prevGraph = EmptyGraph
    /\ run = 0
    /\ arg = <<>>
    /\ ret = <<>>
    /\ targetDir = <<>>
    /\ cli = NoCli
    /\ requests = <<>>

NextServer ==
    \/ Request
    \/ ReadFileCallback
    \/ ReadIndexCallback

SpecServer == InitServer /\ [][NextServer]_vars

(***************************************************************************)
(* Properties                                                              *)
(***************************************************************************)
\* the ids of the nodes of a graph
Ids(g) == { g.nodes[i].id : i \in DOMAIN g.nodes }

\* the kinds of the nodes of a graph
Kinds(g) == { g.nodes[i].type : i \in DOMAIN g.nodes }

\* parseProject has returned
Returned == pc = "done"

\* C1: the graph parseProject returns has no dangling edges: the source and
\* the target of every link are ids of nodes of the graph.
C1_NoDanglingEdges ==
    Returned =>
        \A i \in DOMAIN graph.links :
            /\ graph.links[i].source \in Ids(graph)
            /\ graph.links[i].target \in Ids(graph)

\* C1 witness: a returned graph with links to nodes of every kind, created
\* from references as well as from discovered files
C1_Witness ==
    /\ Returned
    /\ Kinds(graph) = {"local", "package", "builtin"}
    /\ \E i \in DOMAIN graph.links :
          graph.links[i].target \notin { getLocalId(sourceFiles[k]) : k \in DOMAIN sourceFiles }

\* C2: no two nodes of the graph parseProject returns share an id.
C2_UniqueIds ==
    Returned =>
        \A i, j \in DOMAIN graph.nodes :
            graph.nodes[i].id = graph.nodes[j].id => i = j

\* C2 witness: a returned graph with nodes of every kind in which a node that
\* a reference created is the target of two links (it was reused)
C2_Witness ==
    /\ Returned
    /\ Kinds(graph) = {"local", "package", "builtin"}
    /\ \E i, j \in DOMAIN graph.links :
          /\ i < j
          /\ graph.links[i].target = graph.links[j].target
          /\ graph.links[i].target \notin { getLocalId(sourceFiles[k]) : k \in DOMAIN sourceFiles }

\* the pure function under check has returned
Called == pc = "returned"

\* s has no element twice
NoDuplicates(s) == \A i, j \in DOMAIN s : s[i] = s[j] => i = j

\* the positions in a text of the literals that some form matches
MatchedAt(text) ==
    Range(execAll("es", text, 1)) \cup Range(execAll("dynamic", text, 1))
        \cup Range(execAll("require", text, 1))

\* the least element of a non-empty set of numbers
Min(S) == CHOOSE x \in S : \A y \in S : x <= y

\* the position of the first matched occurrence of specifier s in a text
FirstAt(text, s) == Min({ p \in MatchedAt(text) : text[p].s = s })

\* the place of specifier s in the pooled matches: the static form before the
\* dynamic form before the require form, and the position within a form
PoolRank(text, s) ==
    LET n == Len(text) + 1
        es == { p \in Range(execAll("es", text, 1)) : text[p].s = s }
        dy == { n + p : p \in { q \in Range(execAll("dynamic", text, 1)) : text[q].s = s } }
        rq == { n + n + p : p \in { q \in Range(execAll("require", text, 1)) : text[q].s = s } }
    IN Min(es \cup dy \cup rq)

\* C3 as stated: extractImports returns the distinct specifiers in the order of
\* their first occurrence in the text whatever the form, and ['./a', './b',
\* './c', './d'] for the fixture text.
C3_TextOrder ==
    Called =>
        /\ NoDuplicates(ret)
        /\ Range(ret) = { arg[p].s : p \in MatchedAt(arg) }
        /\ \A i, j \in DOMAIN ret : i < j => FirstAt(arg, ret[i]) < FirstAt(arg, ret[j])
        /\ arg = FixtureText =>
              ret = << <<".","/","a">>, <<".","/","b">>, <<".","/","c">>, <<".","/","d">> >>

\* C3 amended: extractImports returns the distinct specifiers in the order of
\* their first occurrence in the pooled matches, which hold all matches of the
\* static form in text order, then those of the dynamic form, then those of
\* the require form; for the fixture text that is ['./a', './d', './b', './c'].
C3_PoolOrder ==
    Called =>
        /\ NoDuplicates(ret)
        /\ Range(ret) = { arg[p].s : p \in MatchedAt(arg) }
        /\ \A i, j \in DOMAIN ret : i < j => PoolRank(arg, ret[i]) < PoolRank(arg, ret[j])
        /\ arg = FixtureText =>
              ret = << <<".","/","a">>, <<".","/","d">>, <<".","/","b">>, <<".","/","c">> >>

\* C3 witness: extractImports has returned for the fixture text
C3_Witness ==
    /\ Called
    /\ arg = FixtureText
    /\ Len(ret) = 4

\* C4: the sequence extractImports returns holds no string twice, and its
\* elements are exactly the specifiers that the static form, the dynamic form
\* or the require form matches.
C4_DistinctUnion ==
    Called =>
        /\ NoDuplicates(ret)
        /\ Range(ret) = Range(pushed("es", arg)) \cup Range(pushed("dynamic", arg))
                            \cup Range(pushed("require", arg))

\* C4 witness: a specifier matched by the static form and again by the require
\* form is returned once, next to a second specifier
C4_Witness ==
    /\ Called
    /\ Len(ret) = 2
    /\ Len(pushed("es", arg)) + Len(pushed("dynamic", arg)) + Len(pushed("require", arg)) = 3
    /\ Range(pushed("es", arg)) \cap Range(pushed("require", arg)) # {}

\* the characters of s before its first "/"
FirstSegment(s) ==
    LET k == IndexFrom(s, "/", 1) IN IF k = 0 THEN s ELSE SubSeq(s, 1, k - 1)

\* s begins with node:
HasNodePrefix(s) ==
    /\ Len(s) >= 5
    /\ s[1] = "n" /\ s[2] = "o" /\ s[3] = "d" /\ s[4] = "e" /\ s[5] = ":"

\* C5: classifyImport gives every non-empty specifier exactly one of local,
\* package, builtin: local iff it begins with "." or "/"; otherwise builtin
\* iff it begins with node: or its first "/"-separated segment is in the
\* built-in table; otherwise package.
C5_Classification ==
    Called =>
        LET isLocal == arg[1] \in {".", "/"}
            isBuiltin == ~isLocal /\ (HasNodePrefix(arg) \/ FirstSegment(arg) \in NODE_BUILTINS)
        IN /\ ret \in {"local", "package", "builtin"}
           /\ (ret = "local") <=> isLocal
           /\ (ret = "builtin") <=> isBuiltin
           /\ (ret = "package") <=> (~isLocal /\ ~isBuiltin)

\* C5 witness: a specifier with the node: prefix whose remainder is not in the
\* built-in table has been classified
C5_Witness ==
    /\ Called
    /\ HasNodePrefix(arg)
    /\ Slice(arg, 5) \notin NODE_BUILTINS
    /\ Len(arg) > 5
    /\ ret = "builtin"

\* the order of the extensions as the claim gives it
ClaimedExtensionOrder ==
    << <<".","t","s">>, <<".","t","s","x">>, <<".","j","s">>, <<".","j","s","x">>, <<".","m","j","s">>, <<".","c","j","s">>, <<".","m","t","s">>, <<".","c","t","s">>, <<".","v","u","e">>, <<".","s","v","e","l","t","e">> >>

\* C6: resolveLocalImport returns the resolved path if it is a regular file;
\* else the first of the path with .ts, .tsx, .js, .jsx, .mjs, .cjs, .mts, .cts,
\* .vue, .svelte appended that exists; else, if the path is a directory, the
\* first index file with these extensions in it that exists; else null.
C6_ResolutionOrder ==
    Called =>
        LET base == PathResolve(PathDirname(FromFile), arg)
            E == DOMAIN ClaimedExtensionOrder
            withExt(i) == base \o ClaimedExtensionOrder[i]
            index(i) == base \o <<"/","i","n","d","e","x">> \o ClaimedExtensionOrder[i]
            exists(p) == p \in DOMAIN fs
        IN IF exists(base) /\ fs[base].type = "file"
           THEN ret = base
           ELSE IF \E i \in E : exists(withExt(i))
           THEN \E i \in E : /\ ret = withExt(i)
                             /\ exists(withExt(i))
                             /\ \A j \in E : j < i => ~exists(withExt(j))
           ELSE IF exists(base) /\ fs[base].type = "dir" /\ \E i \in E : exists(index(i))
           THEN \E i \in E : /\ ret = index(i)
                             /\ exists(index(i))
                             /\ \A j \in E : j < i => ~exists(index(j))
           ELSE ret = Null

\* C6 witness: './lib' has been resolved while both lib.ts and lib/index.ts
\* exist, and lib.ts was returned
C6_Witness ==
    /\ Called
    /\ arg = <<".","/","l","i","b">>
    /\ <<"/","r","/","l","i","b",".","t","s">> \in DOMAIN fs
    /\ <<"/","r","/","l","i","b","/","i","n","d","e","x",".","t","s">> \in DOMAIN fs
    /\ ret = <<"/","r","/","l","i","b",".","t","s">>

\* the references of a discovered file in extraction order: none if it
\* cannot be read
RefsOfFile(f) ==
    IF fs[f].ok
    THEN LET ss == extractImports(fs[f].data)
         IN [ i \in DOMAIN ss |-> [file |-> f, specifier |-> ss[i]] ]
    ELSE <<>>

\* the references of the discovered files, in discovery order
Refs == Flatten([ k \in DOMAIN sourceFiles |-> RefsOfFile(sourceFiles[k]) ])

\* the step of parseProject that handles a local specifier that cannot be resolved
UnresolvedStep ==
    /\ pc = "link"
    /\ classifyImport(specifiers[specIdx]) = "local"
    /\ resolveLocalImport(specifiers[specIdx], sourceFiles[fileIdx], absoluteRoot) = Null
    /\ pc' \in {"link", "parse"}

\* what that step does, with ext the extension of a node it creates
UnresolvedEffect(ext) ==
    LET specifier == specifiers[specIdx]
        node == [id |-> specifier, label |-> specifier, type |-> "local", extension |-> ext]
    IN /\ IF has(nodesMap, specifier)
          THEN nodesMap' = nodesMap
          ELSE nodesMap' = Append(nodesMap, node)
       /\ \E i \in DOMAIN nodesMap' :
             nodesMap'[i].id = specifier /\ nodesMap'[i].type = "local"
       /\ links' = Append(links, [source |-> getLocalId(sourceFiles[fileIdx]),
                                  target |-> specifier])

\* C7 as stated: for a local specifier that cannot be resolved parseProject
\* creates or reuses a node of kind local keyed by the raw specifier, created
\* with an empty extension, and appends the edge to that key.
C7_EmptyExtension == [][UnresolvedStep => UnresolvedEffect(<<>>)]_vars

\* C7 amended: for a local specifier that cannot be resolved parseProject
\* creates or reuses a node of kind local keyed by the raw specifier, created
\* with the extension path.extname gives for the specifier, and appends the
\* edge to that key.
C7_SpecifierExtension ==
    [][UnresolvedStep => UnresolvedEffect(PathExtname(specifiers[specIdx]))]_vars

\* C7 witness: './b.ts' could not be resolved, and the returned graph has its
\* node and its edge
C7_Witness ==
    /\ Returned
    /\ <<"/","r","/","b",".","t","s">> \notin DOMAIN fs
    /\ \E i \in DOMAIN graph.nodes :
          /\ graph.nodes[i].id = <<".","/","b",".","t","s">>
          /\ graph.nodes[i].type = "local"
          /\ graph.nodes[i].extension = <<".","t","s">>
    /\ [source |-> <<"a",".","t","s">>, target |-> <<".","/","b",".","t","s">>] \in Range(graph.links)

\* C8: the links of the returned graph are one per extracted specifier of each
\* readable discovered file, in discovery order of the files and extraction
\* order of the specifiers, each from the file's root-relative key to the
\* target key of the specifier; identical links are kept.
C8_OneEdgePerSpecifier ==
    Returned =>
        LET refs == Refs IN
        /\ Len(graph.links) = Len(refs)
        /\ \A i \in DOMAIN refs :
              graph.links[i] = [source |-> getLocalId(refs[i].file),
                                target |-> targetOf(refs[i].specifier, refs[i].file).id]

\* C8 witness: the returned graph has two identical links next to each other,
\* followed by the links of a later file
C8_Witness ==
    /\ Returned
    /\ \E i, j \in DOMAIN graph.links :
          /\ i + 1 < j
          /\ graph.links[i] = graph.links[i + 1]
          /\ Refs[i].specifier # Refs[i + 1].specifier
          /\ graph.links[j].source # graph.links[i].source

\* C9: a second invocation of parseProject on the unchanged filesystem returns
\* the graph the first one returned: the same nodes and the same links in the
\* same order.
C9_Deterministic == (Returned /\ run >= 2) => graph = prevGraph

\* C9 witness: the second invocation has returned a graph with nodes of every
\* kind and several links
C9_Witness ==
    /\ Returned
    /\ run = 2
    /\ Kinds(graph) = {"local", "package", "builtin"}
    /\ Len(graph.links) >= 3

\* the package key as the claim gives it
ClaimedPackageKey(s) ==
    LET segs == Split(s, "/") IN
    IF s[1] = "@" /\ Len(segs) >= 2 THEN segs[1] \o <<"/">> \o segs[2] ELSE segs[1]

\* the nodes of a graph with the given id
NodesWithId(g, id) == { k \in DOMAIN g.nodes : g.nodes[k].id = id }

BareName(s) == IF HasNodePrefix(s) THEN SubSeq(s, 6, Len(s)) ELSE s

\* C11: for every built-in module name s the specifiers s and 'node:' + s
\* both classify as builtin and get the same node key; in the returned graph
\* every link of a reference to s or to 'node:' + s targets that one key, and
\* exactly one node carries it, of kind builtin and with an empty extension.
C11_BuiltinKey ==
    Returned =>
        /\ \A s \in NODE_BUILTINS :
              /\ classifyImport(s) = "builtin"
              /\ classifyImport(<<"n","o","d","e",":">> \o s) = "builtin"
              /\ targetOf(s, FromFile).id = targetOf(<<"n","o","d","e",":">> \o s, FromFile).id
        /\ LET refs == Refs IN
           \A i \in DOMAIN refs :
               LET s == BareName(refs[i].specifier) IN
               s \in NODE_BUILTINS =>
                   /\ graph.links[i].target = <<"n","o","d","e",":">> \o s
                   /\ Cardinality(NodesWithId(graph, <<"n","o","d","e",":">> \o s)) = 1
                   /\ \A k \in NodesWithId(graph, <<"n","o","d","e",":">> \o s) :
                         /\ graph.nodes[k].type = "builtin"
                         /\ graph.nodes[k].extension = <<>>

\* C11 witness: 'fs' and 'node:fs' are referenced from two files and the
\* returned graph links both to one node
C11_Witness ==
    /\ Returned
    /\ \E i, j \in DOMAIN Refs :
          /\ Refs[i].specifier = <<"f","s">>
          /\ Refs[j].specifier = <<"n","o","d","e",":","f","s">>
          /\ graph.links[i].target = graph.links[j].target
          /\ Cardinality({ k \in DOMAIN graph.nodes : graph.nodes[k].type = "builtin" }) = 1

\* C13: a discovered file that cannot be read has its one local node in the
\* returned graph and is the source of no link, and the graph is the one
\* parseProject returns once that file is readable and empty: no other node
\* or link is missing, added or changed.
C13_UnreadableSkipped ==
    /\ Returned =>
          \A k \in DOMAIN sourceFiles :
              LET f == sourceFiles[k] IN
              ~fs[f].ok =>
                  /\ Cardinality(NodesWithId(graph, getLocalId(f))) = 1
                  /\ \A n \in NodesWithId(graph, getLocalId(f)) :
                        /\ graph.nodes[n].type = "local"
                        /\ graph.nodes[n].extension = PathExtname(f)
                  /\ \A i \in DOMAIN graph.links : graph.links[i].source # getLocalId(f)
    /\ (Returned /\ run = 2 /\ \A f \in DOMAIN fs : fs[f].ok) => graph = prevGraph

\* C13 witness: b.ts could not be read in the first invocation and is empty
\* in the second; both graphs have links of a.ts, listed before b.ts, and of
\* a file listed after it
C13_Witness ==
    /\ Returned
    /\ run = 2
    /\ fs[<<"/","r","/","b",".","t","s">>] = File(<<>>, TRUE)
    /\ \E i, j \in DOMAIN prevGraph.links :
          /\ prevGraph.links[i].source = <<"a",".","t","s">>
          /\ prevGraph.links[j].source \in { <<"l","i","b",".","t","s">>, <<"l","i","b","/","i","n","d","e","x",".","t","s">> }
    /\ \E n \in DOMAIN prevGraph.nodes : prevGraph.nodes[n].id = <<"b",".","t","s">>

\* the root-relative keys of the discovered files, in discovery order
FileKeys == [ k \in DOMAIN sourceFiles |-> getLocalId(sourceFiles[k]) ]

\* the keys that are not a discovered file's, in order of first reference
LazyKeys ==
    LET refs == Refs
        keys == FileKeys
        targets == [ i \in DOMAIN refs |-> targetOf(refs[i].specifier, refs[i].file).id ]
        IsLazy(id) == id \notin Range(keys)
    IN Dedup(SelectSeq(targets, IsLazy))

\* C17: the nodes of the returned graph begin with one local node per
\* discovered file, keyed by its root-relative path and in discovery order,
\* readable or not and referenced or not; the nodes after them are the nodes
\* created from references, in order of first reference.
C17_FilesFirst ==
    Returned =>
        LET keys == FileKeys
            lazy == LazyKeys
        IN /\ Len(graph.nodes) = Len(keys) + Len(lazy)
           /\ \A k \in DOMAIN keys :
                 /\ graph.nodes[k].id = keys[k]
                 /\ graph.nodes[k].type = "local"
                 /\ graph.nodes[k].extension = PathExtname(sourceFiles[k])
           /\ \A k \in DOMAIN lazy : graph.nodes[Len(keys) + k].id = lazy[k]

\* C17 witness: b.ts cannot be read, lib/index.ts is referenced by no file,
\* a.ts references b.ts, and two nodes created from references follow the
\* nodes of the files
C17_Witness ==
    /\ Returned
    /\ <<"/","r","/","b",".","t","s">> \in DOMAIN fs
    /\ ~fs[<<"/","r","/","b",".","t","s">>].ok
    /\ <<"l","i","b","/","i","n","d","e","x",".","t","s">> \in Range(FileKeys)
    /\ \A i \in DOMAIN graph.links : graph.links[i].target # <<"l","i","b","/","i","n","d","e","x",".","t","s">>
    /\ \E i \in DOMAIN graph.links : graph.links[i].target = <<"b",".","t","s">>
    /\ Len(LazyKeys) >= 2
    /\ graph.nodes[Len(FileKeys) + 2].id = LazyKeys[2]

\* C18: in the returned graph the node a link targets has the kind the
\* classification of the link's specifier gives (local, package, builtin), so
\* no package specifier points at a node of kind local.
C18_KindAgrees ==
    Returned =>
        LET refs == Refs IN
        \A i \in DOMAIN refs :
            \A k \in NodesWithId(graph, graph.links[i].target) :
                graph.nodes[k].type = classifyImport(refs[i].specifier)

RECURSIVE Between(_, _)
\* the directories between root and a path below it, root excluded
Between(root, p) ==
    LET d == PathDirname(p) IN
    IF d = root \/ d = p THEN {} ELSE {d} \cup Between(root, d)

\* a name that begins with '.'
Hidden(name) == Len(name) >= 1 /\ name[1] = "."

\* C14: collectSourceFiles returns, each once, exactly the regular files
\* below the root whose name does not begin with '.' and whose lower-cased
\* extension is in SOURCE_EXTENSIONS, with the root listable and every
\* directory between the root and the file listable, not beginning with '.'
\* and not in IGNORED_DIRS; a directory that cannot be listed removes its own
\* subtree only.
C14_Discovery ==
    Called =>
        /\ NoDuplicates(ret)
        /\ Range(ret) =
              { p \in DOMAIN fs :
                  /\ StartsWith(p, arg \o <<"/">>)
                  /\ fs[p].type = "file"
                  /\ ~Hidden(Basename(p))
                  /\ ToLowerCase(PathExtname(Basename(p))) \in Range(SOURCE_EXTENSIONS)
                  /\ fs[arg].ok
                  /\ \A d \in Between(arg, p) :
                        /\ fs[d].ok
                        /\ ~Hidden(Basename(d))
                        /\ Basename(d) \notin IGNORED_DIRS }

\* C14 witness: src cannot be listed; the result has a.ts, B.TS and z.ts of
\* the root and nothing of src, dist, .cfg, the hidden file or the link
C14_Witness ==
    /\ Called
    /\ arg = <<"/","r">>
    /\ <<"/","r","/","s","r","c","/","c",".","j","s">> \in DOMAIN fs
    /\ ~fs[<<"/","r","/","s","r","c">>].ok
    /\ <<"/","r","/","d","i","s","t","/","e",".","j","s">> \in DOMAIN fs
    /\ Range(ret) = { <<"/","r","/","a",".","t","s">>, <<"/","r","/","B",".","T","S">>, <<"/","r","/","z",".","t","s">> }

\* the filters have run
Filtered == cli.at \in {"report", "port", "startServer", "serving"}

\* the kinds the options remove
RemovedKinds ==
    (IF cli.packages THEN {} ELSE {"package"}) \cup (IF cli.builtins THEN {} ELSE {"builtin"})

\* C12: the graph after the filters of --no-packages and --no-builtins has
\* the nodes of the built graph that are not of a removed kind and the links
\* with neither end at the key of a removed node, each in its original
\* relative order, and no link without a node at both ends; with both options
\* as with one.
C12_Filter ==
    Filtered =>
        LET removed == { graph.nodes[i].id :
                            i \in { k \in DOMAIN graph.nodes :
                                       graph.nodes[k].type \in RemovedKinds } }
            KeepNode(n) == n.type \notin RemovedKinds
            KeepLink(l) == l.source \notin removed /\ l.target \notin removed
        IN /\ cli.graph.nodes = SelectSeq(graph.nodes, KeepNode)
           /\ cli.graph.links = SelectSeq(graph.links, KeepLink)
           /\ \A i \in DOMAIN cli.graph.links :
                 /\ cli.graph.links[i].source \in Ids(cli.graph)
                 /\ cli.graph.links[i].target \in Ids(cli.graph)

\* C12 witness: both filters ran on a graph with nodes of the three kinds;
\* a link to a local node that follows a removed link is kept
C12_Witness ==
    /\ Filtered
    /\ ~cli.packages
    /\ ~cli.builtins
    /\ Kinds(graph) = {"local", "package", "builtin"}
    /\ Kinds(cli.graph) = {"local"}
    /\ Len(cli.graph.links) >= 1
    /\ \E i, j \in DOMAIN graph.links :
          /\ i < j
          /\ graph.links[i] \notin Range(cli.graph.links)
          /\ graph.links[j] \in Range(cli.graph.links)

\* the target is taken as a local directory and is none
InvalidRoot ==
    /\ cli.at \notin {"none", "start"}
    /\ cli.githubInfo = <<>>
    /\ LET dir == PathResolve(Cwd, cli.target)
       IN dir \notin DOMAIN fs \/ fs[dir].type # "dir"

\* C15: when the directory given to the program does not exist or is not a
\* directory, parseProject is never called, no graph is printed and no
\* server is started, and the program ends itself with status 1 and an error
\* message.
C15_InvalidRoot ==
    InvalidRoot =>
        /\ run = 0
        /\ pc = "idle"
        /\ cli.printed = <<>>
        /\ cli.serving = <<>>
        /\ cli.at \in {"local", "exited"}
        /\ (cli.at = "exited" /\ ~cli.killed) =>
              /\ cli.exit = <<1>>
              /\ cli.stderr \in { <<"Directory not found">>, <<"Not a directory">> }

\* C15 witness: the target is a regular file and the program has ended with
\* status 1
C15_Witness ==
    /\ InvalidRoot
    /\ cli.target = <<"/","r","/","a",".","t","s">>
    /\ cli.exit = <<1>>
    /\ cli.stderr = <<"Not a directory">>

\* C16: for a GitHub target the temporary clone directory does not exist
\* any more when the process has ended.
C16_NoTmpDirLeft ==
    (cli.at = "exited" /\ cli.githubInfo # <<>>) => TmpDir \notin DOMAIN fs

\* C19: a target that names an existing local directory is not taken as a
\* GitHub repository: parseGitHubInput returns null for it, nothing is cloned
\* and the directory scanned is that directory.
C19_LocalDirectoryWins ==
    (/\ cli.at \notin {"none", "start"}
     /\ PathResolve(Cwd, cli.target) \in DOMAIN fs
     /\ fs[PathResolve(Cwd, cli.target)].type = "dir")
    => /\ cli.githubInfo = <<>>
       /\ TmpDir \notin DOMAIN fs
       /\ run >= 1 => targetDir = PathResolve(Cwd, cli.target)

\* the response the claim gives for a request whose file path is p
ClaimedStatus(p) ==
    IF ~StartsWith(p, uiDir) THEN {403}
    ELSE IF readFile(p) = "ok" THEN {200}
    ELSE IF readFile(p) = "ENOENT"
         THEN (IF readFile(PathJoin(uiDir, <<"i","n","d","e","x",".","h","t","m","l">>)) = "ok" THEN {200} ELSE {404})
         ELSE {500}

\* C20: every request the listener has finished with, under any
\* interleaving of the read callbacks, has its response ended once with one
\* status: 200 and the JSON of the graph for /api/graph, else 403 outside
\* the UI directory, 200 for an existing file, 200 with index.html or 404
\* for a missing file, 500 for another read error; a request still waiting
\* for a callback has no response yet.
C20_OneResponse ==
    \A i \in DOMAIN requests :
        LET r == requests[i] IN
        /\ Len(r.heads) = r.ends
        /\ r.at \in {"readFile", "readIndex"} => r.ends = 0
        /\ r.at \notin {"readFile", "readIndex"} =>
              /\ r.ends = 1
              /\ IF BeforeQuery(r.url) = <<"/","a","p","i","/","g","r","a","p","h">>
                 THEN r.heads = <<200>> /\ r.body = <<graph>>
                 ELSE /\ r.heads[1] \in ClaimedStatus(r.filePath)
                      /\ (r.heads = <<200>> /\ readFile(r.filePath) = "ENOENT")
                            => r.body = fs[PathJoin(uiDir, <<"i","n","d","e","x",".","h","t","m","l">>)].data

=============================================================================
